---- MODULE Spec2Model ----
(***************************************************************************)
(* Model of main.py: the /calculate request (calculate, process_data), the *)
(* progress broadcast (send_log over websocket_connections) and the /ws    *)
(* endpoint (websocket_endpoint).                                          *)
(*                                                                         *)
(* The server is one asyncio event loop: a task runs without interruption  *)
(* until it suspends in an await that really waits.  The only such awaits  *)
(* of a request are the ws.send_text calls of send_log, so every action of *)
(* a request below is the code between two sends, and another task (a      *)
(* second request, a /ws handler) acts only while no request is running.   *)
(***************************************************************************)
EXTENDS Integers, Sequences, FiniteSets, TLC

\* ------------------------------------------------------------------ bounds
NumRequests == 2      \* concurrent /calculate requests
NumListeners == 2     \* /ws clients
MaxTiles == 2         \* largest num_tiles among the areas tried
MaxScore == 1         \* tile scores are 0..MaxScore (NDVI, scaled)
MaxOdd == 2           \* tile results per scan that differ from MaxScore

\* ------------------------------------------------- constants of the source
current_year == 2026  \* datetime.now().year
tile_size == 500
None == -1            \* Python None as a tile score
NoneAvg == <<0, 0>>   \* Python None as a yearly average

Requests == 1..NumRequests
Listeners == 1..NumListeners
Scores == 0..MaxScore

\* Areas tried: one negative area, zero, the least and the greatest area of
\* one tile, and the least area of MaxTiles tiles per axis.
Areas == {-tile_size, 0, 1, tile_size, (MaxTiles - 1) * tile_size + 1}

\* ---------------------------------------------------------- pure helpers
RECURSIVE Gcd(_, _)
Gcd(a, b) == IF b = 0 THEN a ELSE Gcd(b, a % b)

RECURSIVE SumSeq(_)
SumSeq(s) == IF s = <<>> THEN 0 ELSE Head(s) + SumSeq(Tail(s))

\* The quotient p / q of Python's true division, as a fraction in lowest
\* terms (q > 0, p >= 0).
Quotient(p, q) == LET g == Gcd(p, q) IN IF g = 0 THEN <<0, 1>> ELSE <<p \div g, q \div g>>

\* line 75: range(current_year - 3, current_year + 1)
YearRangeDesc(cy) == <<cy, cy - 1, cy - 2, cy - 3>>
YearRange(cy) == <<cy - 3, cy - 2, cy - 1, cy>>

\* line 85: int(np.ceil(area_meters / tile_size))
NumTilesFloor(a) == a \div tile_size
NumTiles(a) == -((-a) \div tile_size)

\* line 97: `if score is not None`
IsPresentTruthy(s) == s # None /\ s # 0
IsPresent(s) == s # None

\* line 101: sum(tile_scores) / len(tile_scores) if tile_scores else None
Average(ts) == IF ts # <<>> THEN Quotient(SumSeq(ts), Len(ts)) ELSE NoneAvg

\* list.remove(x): drops the first occurrence of x
RECURSIVE ListRemove(_, _)
ListRemove(list, x) ==
  IF list = <<>> THEN <<>>
  ELSE IF Head(list) = x THEN Tail(list)
  ELSE <<Head(list)>> \o ListRemove(Tail(list), x)

\* ------------------------------------------------------------------ state
VARIABLES
  websocket_connections, \* line 18: the list of registered listeners
  websocket,             \* per listener: "none", "open" (accepted and
                         \*   registered), "closed" (peer gone, handler not
                         \*   yet resumed), "removed" (handler ran line 116)
  pc,                    \* per request: position in calculate/process_data
  err,                   \* per request: the exception that ended it, or ""
  area,                  \* per request: area_meters
  image,                 \* per request: what line 76 fetched for the year:
                         \*   "scene", or "empty" when the range has none
  yi,                    \* per request: index into the year range (1..4)
  scores, images,        \* per request: the lists of lines 72-73
  num_tiles, i, j, score, tile_scores,  \* per request: locals of the year body
  message, it, ws, ret,  \* per request: send_log's message, the position of
                         \*   its list iterator, its loop variable, and where
                         \*   the caller continues
  files,                 \* static/images: year -> request that wrote it last
  odd,                   \* per request: tile results so far that were not MaxScore
  \* history, read only by the properties
  emitSeq,               \* number of send_log calls so far
  emitted,               \* per request: messages emitted in the current year
  reduced,               \* per request: <<i, j, result>> of the current year
  ops,                   \* per request: kinds of provider call made so far
  recv,                  \* per listener: emitSeq of its latest message
  got,                   \* per request: listeners the current message reached
  stable,                \* per request: listeners registered and connected
                         \*   ever since the current broadcast began
  yearly,                \* per request: for each year begun, <<year, sum of
                         \*   the provider's answers that were not None,
                         \*   their number, number of reductions>>
  broken                 \* listeners a send to which has failed

registry == <<websocket_connections, websocket>>
locals == <<area, image, yi, scores, images, num_tiles, i, j, score, tile_scores>>
sendState == <<message, it, ws, ret>>
history == <<emitSeq, emitted, reduced, ops, recv, got, stable>>
audit == <<yearly, broken>>
vars == <<registry, pc, err, locals, sendState, files, odd, history, audit>>

Suspended == {"idle", "await", "returned", "raised"}
\* no request holds the event loop
LoopFree == \A q \in Requests : pc[q] \in Suspended

Init ==
  /\ websocket_connections = <<>>
  /\ websocket = [l \in Listeners |-> "none"]
  /\ pc = [r \in Requests |-> "idle"]
  /\ err = [r \in Requests |-> ""]
  /\ area = [r \in Requests |-> 0]
  /\ image = [r \in Requests |-> "scene"]
  /\ yi = [r \in Requests |-> 0]
  /\ scores = [r \in Requests |-> <<>>]
  /\ images = [r \in Requests |-> <<>>]
  /\ num_tiles = [r \in Requests |-> 0]
  /\ i = [r \in Requests |-> 0]
  /\ j = [r \in Requests |-> 0]
  /\ score = [r \in Requests |-> None]
  /\ tile_scores = [r \in Requests |-> <<>>]
  /\ message = [r \in Requests |-> <<>>]
  /\ it = [r \in Requests |-> 0]
  /\ ws = [r \in Requests |-> 0]
  /\ ret = [r \in Requests |-> ""]
  /\ files = [y \in {} |-> 0]
  /\ odd = [r \in Requests |-> 0]
  /\ emitSeq = 0
  /\ emitted = [r \in Requests |-> <<>>]
  /\ reduced = [r \in Requests |-> <<>>]
  /\ ops = [r \in Requests |-> {}]
  /\ recv = [l \in Listeners |-> 0]
  /\ got = [r \in Requests |-> <<>>]
  /\ stable = [r \in Requests |-> {}]
  /\ yearly = [r \in Requests |-> <<>>]
  /\ broken = {}

\* ------------------------------------------------------------ send_log
Registered == {websocket_connections[k] : k \in 1..Len(websocket_connections)}

\* lines 41-43, up to the first next() of the list iterator: send_log(m) is
\* called with the log so far `log`, and the caller continues at k.
BeginSend(r, log, m, k) ==
  /\ message' = [message EXCEPT ![r] = [n |-> emitSeq + 1, text |-> m]]
  /\ it' = [it EXCEPT ![r] = 0]
  /\ ret' = [ret EXCEPT ![r] = k]
  /\ pc' = [pc EXCEPT ![r] = "send_log"]
  /\ emitSeq' = emitSeq + 1
  /\ emitted' = [emitted EXCEPT ![r] = Append(log, m)]
  /\ got' = [got EXCEPT ![r] = <<>>]
  /\ stable' = [stable EXCEPT ![r] = {l \in Registered : websocket[l] = "open"}]
  /\ UNCHANGED <<ws, recv>>

\* line 43: one next() of `for ws in websocket_connections`.  The iterator
\* holds an index into the live list.
send_log(r) ==
  /\ pc[r] = "send_log"
  /\ IF it[r] < Len(websocket_connections)
       THEN /\ ws' = [ws EXCEPT ![r] = websocket_connections[it[r] + 1]]
            /\ it' = [it EXCEPT ![r] = it[r] + 1]
            /\ pc' = [pc EXCEPT ![r] = "await"]
       ELSE /\ pc' = [pc EXCEPT ![r] = ret[r]]
            /\ UNCHANGED <<ws, it>>
  /\ UNCHANGED <<registry, err, locals, message, ret, files, odd, history,
                 audit>>

\* line 44: `await ws.send_text(message)` completes and the request resumes.
send_text(r) ==
  /\ pc[r] = "await"
  /\ LoopFree
  /\ websocket[ws[r]] = "open"
  /\ recv' = [recv EXCEPT ![ws[r]] = message[r].n]
  /\ got' = [got EXCEPT ![r] = Append(got[r], ws[r])]
  /\ pc' = [pc EXCEPT ![r] = "send_log"]
  /\ UNCHANGED <<registry, err, locals, sendState, files, odd,
                 emitSeq, emitted, reduced, ops, stable, audit>>

\* line 44 on a connection whose peer is gone: the write is either accepted
\* by the transport and lost, or it raises.
send_text_lost(r) ==
  /\ pc[r] = "await"
  /\ LoopFree
  /\ websocket[ws[r]] # "open"
  /\ pc' = [pc EXCEPT ![r] = "send_log"]
  /\ broken' = broken \cup {ws[r]}
  /\ UNCHANGED <<registry, err, locals, sendState, files, odd, history,
                 yearly>>

send_text_raises(r) ==
  /\ pc[r] = "await"
  /\ LoopFree
  /\ websocket[ws[r]] # "open"
  /\ pc' = [pc EXCEPT ![r] = "raised"]
  /\ err' = [err EXCEPT ![r] = "WebSocketDisconnect"]
  /\ broken' = broken \cup {ws[r]}
  /\ UNCHANGED <<registry, locals, sendState, files, odd, history, yearly>>

\* ---------------------------------------------------- websocket_endpoint
\* lines 110-111: accept and register
websocket_endpoint(l) ==
  /\ websocket[l] = "none"
  /\ LoopFree
  /\ websocket' = [websocket EXCEPT ![l] = "open"]
  /\ websocket_connections' = Append(websocket_connections, l)
  /\ UNCHANGED <<pc, err, locals, sendState, files, odd, history, audit>>

\* the peer goes away; nothing of the server runs
client_close(l) ==
  /\ websocket[l] = "open"
  /\ websocket' = [websocket EXCEPT ![l] = "closed"]
  /\ stable' = [r \in Requests |-> stable[r] \ {l}]
  /\ UNCHANGED <<websocket_connections, pc, err, locals, sendState, files,
                 odd, emitSeq, emitted, reduced, ops, recv, got, audit>>

\* lines 115-116: receive_text raises WebSocketDisconnect in the handler
websocket_disconnect(l) ==
  /\ websocket[l] = "closed"
  /\ LoopFree
  /\ websocket' = [websocket EXCEPT ![l] = "removed"]
  /\ websocket_connections' = ListRemove(websocket_connections, l)
  /\ stable' = [r \in Requests |-> stable[r] \ {l}]
  /\ UNCHANGED <<pc, err, locals, sendState, files, odd,
                 emitSeq, emitted, reduced, ops, recv, got, audit>>

\* ------------------------------------------------------------- calculate
\* line 124
calculate(r, a) ==
  /\ pc[r] = "idle"
  /\ LoopFree
  /\ area' = [area EXCEPT ![r] = a]
  /\ BeginSend(r, <<>>, <<"Request", a>>, "process_data")
  /\ UNCHANGED <<registry, err, image, yi, scores, images, num_tiles, i, j,
                 score, tile_scores, files, odd, reduced, ops, audit>>

\* ---------------------------------------------------------- process_data
\* line 90: f"Processing : {i}th Tile out of {num_tiles} Tiles"
MsgProcessing(r) == <<"Processing", i[r], num_tiles[r]>>

\* line 98: f"Processed : {i}th Tile out of {num_tiles} Tiles ; Score : {score}"
MsgProcessed(r, v) == <<"Processed", i[r], num_tiles[r], v>>

\* lines 92-95: the tile the sub-region is built for
TileTransposed(r) == <<j[r], i[r]>>
Tile(r) == <<i[r], j[r]>>

Year(r) == YearRange(current_year)[yi[r]]

\* line 79 and line 81: the name of the year's image file
PathOfNow(y) == <<"static/images/satellite", current_year>>
Path(y) == <<"static/images/satellite", y>>

\* lines 92-95: the corners of the sub-region of tile t = <<i, j>> as offsets
\* from (lon, lat) in thousandths of a degree, in the order of the list
\* [lon - (i * tile_size) / 1000, lat - (j * tile_size) / 1000,
\*  lon - ((i + 1) * tile_size) / 1000, lat - ((j + 1) * tile_size) / 1000]
SubRegion(t) ==
  <<-(t[1] * tile_size), -(t[2] * tile_size),
    -((t[1] + 1) * tile_size), -((t[2] + 1) * tile_size)>>

\* lines 48-52: the region spans area_km / 2 degrees on each side of lon and
\* of lat, with area_km = sqrt(area_meters) / 1000.  An offset of x
\* thousandths of a degree is inside when |x| / 1000 <= sqrt(a) / 2000,
\* that is when 4 * x * x <= a.
WithinRegion(a, x) == 4 * x * x <= a

\* lines 71-73
process_data(r) ==
  /\ pc[r] = "process_data"
  /\ scores' = [scores EXCEPT ![r] = <<>>]
  /\ images' = [images EXCEPT ![r] = <<>>]
  /\ yi' = [yi EXCEPT ![r] = 0]
  /\ pc' = [pc EXCEPT ![r] = "for_year"]
  /\ UNCHANGED <<registry, err, area, image, num_tiles, i, j, score,
                 tile_scores, sendState, files, odd, history, audit>>

\* lines 75-78: the next year of the range, its fetch (lines 47-60: the first
\* image of the year's collection, one of `found`; an empty collection gives
\* an image without content, and nothing is computed yet) and the first
\* message; line 105 and lines 128-131 when the range is exhausted
for_year(r, found) ==
  /\ pc[r] = "for_year"
  /\ IF yi[r] < Len(YearRange(current_year))
       THEN /\ yi' = [yi EXCEPT ![r] = yi[r] + 1]
            /\ \E img \in found : image' = [image EXCEPT ![r] = img]
            /\ ops' = [ops EXCEPT ![r] = @ \cup {"fetch"}]
            /\ reduced' = [reduced EXCEPT ![r] = <<>>]
            /\ yearly' = [yearly EXCEPT ![r] =
                   Append(@, <<YearRange(current_year)[yi[r] + 1], 0, 0, 0>>)]
            /\ BeginSend(r, <<>>,
                 <<"Fetching", YearRange(current_year)[yi[r] + 1]>>, "save_image")
       ELSE /\ pc' = [pc EXCEPT ![r] = "returned"]
            /\ UNCHANGED <<yi, image, sendState, history, yearly>>
  /\ UNCHANGED <<registry, err, area, scores, images, num_tiles, i, j, score,
                 tile_scores, files, odd, broken>>

\* lines 79-80, for an image with content
save_image(r) ==
  /\ pc[r] = "save_image"
  /\ image[r] = "scene"
  /\ files' = [y \in DOMAIN files \cup {Year(r)} |->
                 IF y = Year(r) THEN r ELSE files[y]]
  /\ ops' = [ops EXCEPT ![r] = @ \cup {"save"}]
  /\ BeginSend(r, emitted[r], <<"ImageSaved", Path(Year(r))>>, "images_append")
  /\ UNCHANGED <<registry, err, locals, odd, reduced, audit>>

\* lines 81-86
images_append(r) ==
  /\ pc[r] = "images_append"
  /\ images' = [images EXCEPT ![r] = Append(@, Path(Year(r)))]
  /\ ops' = [ops EXCEPT ![r] = @ \cup {"index"}]
  /\ num_tiles' = [num_tiles EXCEPT ![r] = NumTiles(area[r])]
  /\ BeginSend(r, emitted[r], <<"Dividing", NumTiles(area[r])>>, "tile_scores")
  /\ UNCHANGED <<registry, err, area, image, yi, scores, i, j, score,
                 tile_scores, files, odd, reduced, audit>>

\* line 88: the year's list of tile scores
TileScoresCarried(r) == tile_scores[r]

TileScoresOfYear(r) == <<>>

\* line 88 and the start of the loop of line 89
tile_scores_init(r) ==
  /\ pc[r] = "tile_scores"
  /\ tile_scores' = [tile_scores EXCEPT ![r] = TileScoresOfYear(r)]
  /\ i' = [i EXCEPT ![r] = 0]
  /\ pc' = [pc EXCEPT ![r] = "for_i"]
  /\ UNCHANGED <<registry, err, area, image, yi, scores, images, num_tiles, j,
                 score, sendState, files, odd, history, audit>>

\* line 103: the message that ends a year
MsgSuccessTotal(r) == <<"Success", Year(r), <<SumSeq(tile_scores[r]), 1>>>>

MsgSuccess(r) == <<"Success", Year(r), Average(tile_scores[r])>>

\* lines 89-90: the next row and its message; lines 101-103 when the rows
\* are exhausted
for_i(r) ==
  /\ pc[r] = "for_i"
  /\ IF i[r] < num_tiles[r]
       THEN /\ j' = [j EXCEPT ![r] = 0]
            /\ BeginSend(r, emitted[r], MsgProcessing(r), "for_j")
            /\ UNCHANGED scores
       ELSE /\ scores' = [scores EXCEPT ![r] =
                            Append(@, <<Year(r), Average(tile_scores[r])>>)]
            /\ BeginSend(r, emitted[r], MsgSuccess(r), "for_year")
            /\ UNCHANGED j
  /\ UNCHANGED <<registry, err, area, image, yi, images, num_tiles, i, score,
                 tile_scores, files, odd, reduced, ops, audit>>

\* lines 91-98: the next tile of the row, its reduction (the provider answers
\* some v of `answers`) and the message of a present score; back to line 89
\* when the row is exhausted
for_j(r, answers) ==
  /\ pc[r] = "for_j"
  /\ IF j[r] < num_tiles[r]
       THEN \E v \in answers :
            /\ odd[r] + (IF v = MaxScore THEN 0 ELSE 1) <= MaxOdd
            /\ odd' = [odd EXCEPT ![r] = @ + (IF v = MaxScore THEN 0 ELSE 1)]
            /\ score' = [score EXCEPT ![r] = v]
            /\ reduced' = [reduced EXCEPT ![r] = Append(@, Tile(r) \o <<v>>)]
            /\ ops' = [ops EXCEPT ![r] = @ \cup {"reduce"}]
            /\ yearly' = [yearly EXCEPT ![r][Len(yearly[r])] =
                   IF v = None THEN <<@[1], @[2], @[3], @[4] + 1>>
                               ELSE <<@[1], @[2] + v, @[3] + 1, @[4] + 1>>]
            /\ IF IsPresent(v)
                 THEN /\ BeginSend(r, emitted[r], MsgProcessed(r, v), "append")
                      /\ UNCHANGED <<i, j>>
                 ELSE /\ j' = [j EXCEPT ![r] = j[r] + 1]
                      /\ UNCHANGED <<i, pc, sendState, emitSeq, emitted, recv,
                                     got, stable>>
       ELSE /\ i' = [i EXCEPT ![r] = i[r] + 1]
            /\ pc' = [pc EXCEPT ![r] = "for_i"]
            /\ UNCHANGED <<j, score, odd, sendState, history, yearly>>
  /\ UNCHANGED <<registry, err, area, image, yi, scores, images, num_tiles,
                 tile_scores, files, broken>>

\* line 99 without the step of the loop of line 91
append_again(r) ==
  /\ pc[r] = "append"
  /\ tile_scores' = [tile_scores EXCEPT ![r] = Append(@, score[r])]
  /\ pc' = [pc EXCEPT ![r] = "for_j"]
  /\ UNCHANGED <<registry, err, area, image, yi, scores, images, num_tiles, i,
                 j, score, sendState, files, odd, history, audit>>

\* line 99
append(r) ==
  /\ pc[r] = "append"
  /\ tile_scores' = [tile_scores EXCEPT ![r] = Append(@, score[r])]
  /\ j' = [j EXCEPT ![r] = j[r] + 1]
  /\ pc' = [pc EXCEPT ![r] = "for_j"]
  /\ UNCHANGED <<registry, err, area, image, yi, scores, images, num_tiles, i,
                 score, sendState, files, odd, history, audit>>

\* a provider call of lines 76, 79, 83 or 96 raises; nothing catches it
ProviderCall(r) ==
  \/ pc[r] = "for_year" /\ yi[r] < Len(YearRange(current_year))
  \/ pc[r] = "save_image" /\ image[r] = "scene"
  \/ pc[r] = "images_append"
  \/ pc[r] = "for_j" /\ j[r] < num_tiles[r]

\* the same fault, were it caught and the year given up
provider_caught(r) ==
  /\ ProviderCall(r)
  /\ pc' = [pc EXCEPT ![r] = "for_year"]
  /\ err' = [err EXCEPT ![r] = "ProviderUnavailableError"]
  /\ UNCHANGED <<registry, locals, sendState, files, odd, history, audit>>

provider_raises(r) ==
  /\ ProviderCall(r)
  /\ pc' = [pc EXCEPT ![r] = "raised"]
  /\ err' = [err EXCEPT ![r] = "ProviderUnavailableError"]
  /\ ops' = [ops EXCEPT ![r] = @ \cup
               {CASE pc[r] = "for_year" -> "fetch"
                  [] pc[r] = "save_image" -> "save"
                  [] pc[r] = "images_append" -> "index"
                  [] OTHER -> "reduce"}]
  /\ UNCHANGED <<registry, locals, sendState, files, odd,
                 emitSeq, emitted, reduced, recv, got, stable, audit>>

\* lines 65-67 raise (the download, the decoding or the write of the file);
\* line 79 is in no try block, so the exception leaves process_data and
\* calculate
save_image_raises(r) ==
  /\ pc[r] = "save_image"
  /\ image[r] = "scene"
  /\ pc' = [pc EXCEPT ![r] = "raised"]
  /\ err' = [err EXCEPT ![r] = "ImagePersistenceError"]
  /\ ops' = [ops EXCEPT ![r] = @ \cup {"save"}]
  /\ UNCHANGED <<registry, locals, sendState, files, odd,
                 emitSeq, emitted, reduced, recv, got, stable, audit>>

\* line 64 for an image without content: the thumbnail is the first thing
\* computed from the image, the provider rejects the computation and the
\* exception leaves process_data and calculate as any other does
empty_image_raises(r) ==
  /\ pc[r] = "save_image"
  /\ image[r] = "empty"
  /\ pc' = [pc EXCEPT ![r] = "raised"]
  /\ err' = [err EXCEPT ![r] = "EmptyImage"]
  /\ ops' = [ops EXCEPT ![r] = @ \cup {"save"}]
  /\ UNCHANGED <<registry, locals, sendState, files, odd,
                 emitSeq, emitted, reduced, recv, got, stable, audit>>

\* --------------------------------------------------------- specifications
\* One request, no listener: the scan itself, over every area of Areas and
\* every provider answer within the bounds.
ScanNext ==
  \/ \E a \in Areas : calculate(1, a)
  \/ process_data(1)
  \/ for_year(1, {"scene", "empty"})
  \/ save_image(1)
  \/ images_append(1)
  \/ tile_scores_init(1)
  \/ for_i(1)
  \/ for_j(1, Scores \cup {None})
  \/ append(1)
  \/ send_log(1)
  \/ provider_raises(1)
  \/ save_image_raises(1)
  \/ empty_image_raises(1)

ScanSpec == Init /\ [][ScanNext]_vars

Next ==
  \/ \E r \in Requests, a \in Areas : calculate(r, a)
  \/ \E r \in Requests : process_data(r)
  \/ \E r \in Requests : for_year(r, {"scene", "empty"})
  \/ \E r \in Requests : save_image(r)
  \/ \E r \in Requests : images_append(r)
  \/ \E r \in Requests : tile_scores_init(r)
  \/ \E r \in Requests : for_i(r)
  \/ \E r \in Requests : for_j(r, Scores \cup {None})
  \/ \E r \in Requests : append(r)
  \/ \E r \in Requests : send_log(r)
  \/ \E r \in Requests : send_text(r)
  \/ \E r \in Requests : send_text_lost(r)
  \/ \E r \in Requests : send_text_raises(r)
  \/ \E r \in Requests : provider_raises(r)
  \/ \E r \in Requests : save_image_raises(r)
  \/ \E r \in Requests : empty_image_raises(r)
  \/ \E l \in Listeners : websocket_endpoint(l)
  \/ \E l \in Listeners : client_close(l)
  \/ \E l \in Listeners : websocket_disconnect(l)

Spec == Init /\ [][Next]_vars

\* One request of one tile per year, a provider that answers MaxScore for
\* every tile, and the listeners coming and going: one scan's broadcasts
\* against a changing registry.
ListenerNext ==
  \/ calculate(1, 1)
  \/ process_data(1)
  \/ for_year(1, {"scene"})
  \/ save_image(1)
  \/ images_append(1)
  \/ tile_scores_init(1)
  \/ for_i(1)
  \/ for_j(1, {MaxScore})
  \/ append(1)
  \/ send_log(1)
  \/ send_text(1)
  \/ send_text_lost(1)
  \/ send_text_raises(1)
  \/ \E l \in Listeners : websocket_endpoint(l)
  \/ \E l \in Listeners : client_close(l)
  \/ \E l \in Listeners : websocket_disconnect(l)

ListenerSpec == Init /\ [][ListenerNext]_vars

\* The event loop runs a request that can run, and a send on a connection
\* whose peer is gone ends.  Whether and when a connected listener takes a
\* message is up to the listener: no fairness for send_text.
RequestStep ==
  \/ process_data(1)
  \/ for_year(1, {"scene"})
  \/ save_image(1)
  \/ images_append(1)
  \/ tile_scores_init(1)
  \/ for_i(1)
  \/ for_j(1, {MaxScore})
  \/ append(1)
  \/ send_log(1)

DeadSendEnds == send_text_lost(1) \/ send_text_raises(1)

FairListenerSpec ==
  ListenerSpec /\ WF_vars(RequestStep) /\ WF_vars(DeadSendEnds)

\* Concurrent requests of one tile per year and one listener that stays
\* connected: the broadcasts of scans that interleave at their sends.
ConcurrentNext ==
  \/ \E r \in Requests : calculate(r, 1)
  \/ \E r \in Requests : process_data(r)
  \/ \E r \in Requests : for_year(r, {"scene"})
  \/ \E r \in Requests : save_image(r)
  \/ \E r \in Requests : images_append(r)
  \/ \E r \in Requests : tile_scores_init(r)
  \/ \E r \in Requests : for_i(r)
  \/ \E r \in Requests : for_j(r, {MaxScore})
  \/ \E r \in Requests : append(r)
  \/ \E r \in Requests : send_log(r)
  \/ \E r \in Requests : send_text(r)
  \/ websocket_endpoint(1)

ConcurrentSpec == Init /\ [][ConcurrentNext]_vars

\* ------------------------------------------------------------- properties
\* The request has appended the entry of its current year (line 102) and is
\* no further than the next loop test; reduced and emitted are that year's.
YearRecorded(r) ==
  /\ ret[r] = "for_year"
  /\ pc[r] \in {"send_log", "await", "for_year", "returned"}

LastAverage(r) == scores[r][Len(scores[r])][2]

\* the provider's answers of the current year that are not None
Present(r) == SelectSeq(reduced[r], LAMBDA e : e[3] # None)

RECURSIVE Total(_)
Total(log) == IF log = <<>> THEN 0 ELSE Head(log)[3] + Total(Tail(log))

\* C1: a scan that returns has returned exactly four entries, for the years
\* current_year-3, current_year-2, current_year-1, current_year in that
\* order, each once, whatever the tiles answered.
C1_FourYearsAscending ==
  \A r \in Requests : pc[r] = "returned" =>
    /\ Len(scores[r]) = 4
    /\ \A k \in 1..4 : scores[r][k][1] = current_year - 4 + k

C1_Witness ==
  \E r \in Requests :
    /\ pc[r] = "returned"
    /\ num_tiles[r] = 2
    /\ \E k \in 1..Len(scores[r]) : scores[r][k][2] = <<2, 3>>
    /\ \E k \in 1..Len(scores[r]) : scores[r][k][2] = <<1, 1>>

\* C2: the average recorded for a year is the sum of the answers that were
\* not None divided by their number, and it is None exactly when there was
\* no such answer (in particular with no tile at all).
C2_MeanOfPresent ==
  \A r \in Requests : YearRecorded(r) =>
    LET avg == LastAverage(r)
        n == Len(Present(r))
    IN IF n = 0
         THEN avg = NoneAvg
         ELSE /\ avg # NoneAvg
              /\ avg[2] > 0
              /\ avg[1] * n = Total(Present(r)) * avg[2]

C2_Witness ==
  \E r \in Requests :
    /\ YearRecorded(r)
    /\ Len(Present(r)) = 3
    /\ Len(reduced[r]) = 4
    /\ Total(Present(r)) = 2 * MaxScore
    /\ \E k \in 1..3 : Present(r)[k][3] = 0

\* C3: a request with area <= 0 makes no provider call and returns no
\* result.
C3_InvalidAreaRejected ==
  \A r \in Requests : (pc[r] # "idle" /\ area[r] <= 0) =>
    /\ ops[r] = {}
    /\ pc[r] # "returned"

\* the messages of kind k in a log
OfKind(log, k) == SelectSeq(log, LAMBDA m : m[1] = k)

\* the tile messages lines 90 and 98 emit for the rows first..n-1, given the
\* provider's answers `log` of the year
RECURSIVE TileEvents(_, _, _)
TileEvents(log, first, n) ==
  IF first >= n THEN <<>>
  ELSE LET row == SelectSeq(log, LAMBDA e : e[1] = first /\ e[3] # None)
       IN <<<<"Processing", first, n>>>>
          \o [k \in 1..Len(row) |-> <<"Processed", first, n, row[k][3]>>]
          \o TileEvents(log, first + 1, n)

\* C8: in a recorded year every reduction has its own event before it and
\* its own event after it, also when the score is None.
C8_EventPairPerTile ==
  \A r \in Requests : YearRecorded(r) =>
    /\ Len(OfKind(emitted[r], "Processing")) = Len(reduced[r])
    /\ Len(OfKind(emitted[r], "Processed")) = Len(reduced[r])

\* What lines 90 and 98 emit instead: row by row in ascending i, one
\* "Processing" message with i and num_tiles before the row's reductions,
\* then one "Processed" message with i, num_tiles and the score for each tile
\* of the row whose score is not None; a tile without a score has none.
TileEventsAsEmitted ==
  \A r \in Requests : YearRecorded(r) =>
    SelectSeq(emitted[r], LAMBDA m : m[1] \in {"Processing", "Processed"})
      = TileEvents(reduced[r], 0, num_tiles[r])

\* C9: for a positive area num_tiles is ceil(area / 500), and a recorded year
\* has reduced each (i, j) with 0 <= i, j < num_tiles exactly once.
C9_GridIsSquareOfCeil ==
  \A r \in Requests : (YearRecorded(r) /\ area[r] > 0) =>
    LET n == num_tiles[r] IN
    /\ (n - 1) * tile_size < area[r]
    /\ area[r] <= n * tile_size
    /\ Len(reduced[r]) = n * n
    /\ {<<reduced[r][k][1], reduced[r][k][2]>> : k \in 1..Len(reduced[r])}
         = (0..(n - 1)) \X (0..(n - 1))

C9_Witness ==
  \E r \in Requests :
    /\ YearRecorded(r)
    /\ area[r] = tile_size + 1
    /\ Len(reduced[r]) = 4

\* C10: within a year the k-th reduction is of tile ((k-1) div num_tiles,
\* (k-1) mod num_tiles): i is the outer index and j the inner one, in every
\* year.
C10_RowMajor ==
  \A r \in Requests : \A k \in 1..Len(reduced[r]) :
    /\ reduced[r][k][1] = (k - 1) \div num_tiles[r]
    /\ reduced[r][k][2] = (k - 1) % num_tiles[r]

C10_Witness ==
  \E r \in Requests :
    /\ yi[r] = 4
    /\ Len(reduced[r]) = 4
    /\ <<reduced[r][2][1], reduced[r][2][2]>> = <<0, 1>>
    /\ <<reduced[r][3][1], reduced[r][3][2]>> = <<1, 0>>

\* the broadcast of r's latest message has ended with send_log returning
BroadcastOver(r) == pc[r] \notin {"idle", "send_log", "await", "raised"}

Times(list, x) == Cardinality({k \in 1..Len(list) : list[k] = x})

\* C4: a listener that has received messages of the scan and then
\* disconnects makes no send raise into the scan, and the listeners still
\* connected get the messages broadcast after it.
C4_DisconnectHarmless ==
  \A r \in Requests :
    /\ ~(pc[r] = "raised" /\ err[r] = "WebSocketDisconnect" /\ recv[ws[r]] > 0)
    /\ (/\ BroadcastOver(r)
        /\ \E l \in Listeners : websocket[l] \in {"closed", "removed"} /\ recv[l] > 0)
         => \A l \in stable[r] : Times(got[r], l) >= 1

\* C5: a scan suspended in a send to a connected listener proceeds, whether
\* or not the listener ever completes the receipt.
C5_ScanNeverWaits ==
  \A r \in Requests :
    (pc[r] = "await" /\ websocket[ws[r]] = "open") ~> (pc[r] # "await")

\* C6: a broadcast that has ended reached every listener that was
\* registered and connected from its start to its end exactly once,
\* whatever was added to or removed from the registry meanwhile.
C6_BroadcastReachesEachOnce ==
  \A r \in Requests : BroadcastOver(r) =>
    \A l \in stable[r] : Times(got[r], l) = 1

\* C7: a listener receives messages in the order of their send_log calls.
C7_DeliveryInEmissionOrder ==
  [][\A l \in Listeners : recv'[l] >= recv[l]]_vars

\* C11: a year whose image cannot be saved is still scored: the failure of
\* save_image does not end the scan.
C11_SaveFailureNotFatal ==
  \A r \in Requests : err[r] = "ImagePersistenceError" => pc[r] # "raised"

\* C12: a year for which the provider has no scene does not make the scan
\* fail: the scan goes on to record that year and the others.
C12_NoSceneIsAbsentScore ==
  \A r \in Requests :
    (image[r] = "empty" /\ pc[r] # "idle") => pc[r] # "raised"

\* the mean of the answers of year entry y = <<year, sum, number, calls>>
MeanOfYear(y) == IF y[3] = 0 THEN NoneAvg ELSE Quotient(y[2], y[3])

\* C13: every entry of the score list is the mean of the answers of its own
\* year that were not None, and None when that year had no such answer,
\* whatever the other years answered.
C13_YearsIndependent ==
  \A r \in Requests : \A k \in 1..Len(scores[r]) :
    scores[r][k] = <<yearly[r][k][1], MeanOfYear(yearly[r][k])>>

C13_Witness ==
  \E r \in Requests :
    /\ pc[r] = "returned"
    /\ \E k \in 1..4 :
         /\ yearly[r][k][4] > 0
         /\ scores[r][k][2] = NoneAvg
         /\ \A m \in (1..4) \ {k} : scores[r][m][2] # NoneAvg

\* C14: a provider call that raises ends the scan: the request is left
\* raised, it returns nothing, and from then on it makes no provider call,
\* emits no message and records no score.
C14_FaultAbortsScan ==
  [][\A r \in Requests :
       /\ err'[r] = "ProviderUnavailableError" => pc'[r] = "raised"
       /\ err[r] = "ProviderUnavailableError" =>
            /\ ops'[r] = ops[r]
            /\ emitted'[r] = emitted[r]
            /\ scores'[r] = scores[r]
            /\ yearly'[r] = yearly[r]]_vars

C14_Witness ==
  \E r \in Requests :
    /\ pc[r] = "raised"
    /\ err[r] = "ProviderUnavailableError"
    /\ Len(scores[r]) >= 1
    /\ Len(reduced[r]) >= 1

\* C15: the messages of a scanned year begin with the one message that
\* starts the year, before any tile message, and once the year's entry is
\* appended they end with the one message that completes it, which carries
\* the appended average; every year before it is already recorded, so its
\* messages came earlier.
C15_YearEventsBracketed ==
  \A r \in Requests : (yi[r] >= 1 /\ pc[r] # "idle") =>
    LET log == emitted[r] IN
    /\ log[1] = <<"Fetching", Year(r)>>
    /\ Len(OfKind(log, "Fetching")) = 1
    /\ \A k \in 1..Len(log) :
         log[k][1] \in {"Fetching", "Success"} => log[k][2] = Year(r)
    /\ Len(scores[r]) \in {yi[r] - 1, yi[r]}
    /\ \A k \in 1..Len(scores[r]) :
         scores[r][k][1] = YearRange(current_year)[k]
    /\ IF Len(scores[r]) = yi[r]
         THEN /\ Len(OfKind(log, "Success")) = 1
              /\ log[Len(log)] = <<"Success", Year(r), LastAverage(r)>>
         ELSE OfKind(log, "Success") = <<>>

C15_Witness ==
  \E r \in Requests :
    /\ YearRecorded(r)
    /\ yi[r] = 2
    /\ Len(OfKind(emitted[r], "Processed")) >= 2
    /\ emitted[r][Len(emitted[r])] = <<"Success", Year(r), <<1, 2>>>>

\* C16: what a scan wrote is not overwritten by another scan: when a scan
\* returns, the image file of each of its years is the one it saved.
C16_ScansShareNothing ==
  [][\A r \in Requests :
       (pc[r] # "returned" /\ pc'[r] = "returned") =>
         \A k \in 1..Len(images'[r]) :
           files'[images'[r][k][2]] = r]_vars

\* C17: the list of image paths is never shorter than the score list and at
\* most one entry longer; when the scan returns it holds one path per year,
\* the k-th path being the file of the year of the k-th score.
C17_PathsAlignedWithScores ==
  \A r \in Requests :
    /\ Len(scores[r]) <= Len(images[r])
    /\ Len(images[r]) <= Len(scores[r]) + 1
    /\ \A k \in 1..Len(scores[r]) :
         images[r][k] = <<"static/images/satellite", scores[r][k][1]>>
    /\ pc[r] = "returned" =>
         /\ Len(images[r]) = Len(YearRange(current_year))
         /\ Len(scores[r]) = Len(images[r])
         /\ \A k \in 1..(Len(images[r]) - 1) :
              images[r][k][2] < images[r][k + 1][2]

C17_Witness ==
  \E r \in Requests :
    /\ pc[r] = "returned"
    /\ Len(images[r]) = 4
    /\ images[r][4] = <<"static/images/satellite", current_year>>
    /\ Len(reduced[r]) >= 1

\* C18: every tile reduced for a request of positive area lies inside the
\* region the image was fetched for: each corner of its sub-region is within
\* the region in longitude and in latitude.
C18_TilesInsideRegion ==
  \A r \in Requests : area[r] > 0 =>
    \A k \in 1..Len(reduced[r]) :
      LET sub_region == SubRegion(<<reduced[r][k][1], reduced[r][k][2]>>) IN
      \A c \in 1..4 : WithinRegion(area[r], sub_region[c])

\* C19: the registry holds every accepted listener that is still connected
\* exactly once and no listener whose handler has ended, and a listener a
\* send to which has failed is sent no later message.
C19_RegistryHoldsLiveListeners ==
  /\ \A l \in Listeners :
       /\ websocket[l] = "open" => Times(websocket_connections, l) = 1
       /\ websocket[l] \in {"none", "removed"} =>
            Times(websocket_connections, l) = 0
  /\ \A r \in Requests : pc[r] = "await" => ws[r] \notin broken

\* An upper bound on the steps request r still takes: W(n) steps for each
\* year not begun, RowW(n) for each row not begun, 4 for each tile not
\* begun, and the steps left at the current position.
RowW(n) == 4 * n + 4
YearW(n) == n * RowW(n) + 9
Top == 4 * YearW(MaxTiles + 1) + 5

VariantAt(r, p) ==
  LET n == IF NumTiles(area[r]) > 0 THEN NumTiles(area[r]) ELSE 0
      base == (Len(YearRange(current_year)) - yi[r]) * YearW(n)
      rows == base + 4 + (n - i[r] - 1) * RowW(n)
  IN CASE p = "process_data" -> 4 * YearW(n) + 3
       [] p = "for_year" -> base + 2
       [] p = "save_image" -> base + 4 + n * RowW(n) + 5
       [] p = "images_append" -> base + 4 + n * RowW(n) + 3
       [] p = "tile_scores" -> base + 4 + n * RowW(n) + 1
       [] p = "for_i" -> base + 4 + (n - i[r]) * RowW(n)
       [] p = "for_j" -> rows + 1 + (n - j[r]) * 4
       [] p = "append" -> rows + 1 + (n - j[r]) * 4 - 2
       [] OTHER -> 0

Variant(r) ==
  CASE pc[r] = "idle" -> Top
    [] pc[r] \in {"send_log", "await"} -> VariantAt(r, ret[r]) + 1
    [] OTHER -> VariantAt(r, pc[r])

VariantSum == SumSeq([r \in Requests |-> Variant(r)])

\* C20: a scan whose provider calls return terminates: every step of the
\* scan lowers a bound on the steps left, which is never negative, and the
\* scan of an area >= 0 that returns has begun exactly four years, each once
\* and in ascending order, and has made num_tiles^2 reductions in each.
C20_ScanTerminates ==
  [][/\ VariantSum' < VariantSum
     /\ \A r \in Requests :
          /\ Variant(r)' >= 0
          /\ (pc'[r] = "returned" /\ area'[r] >= 0) =>
               /\ Len(yearly'[r]) = 4
               /\ \A k \in 1..4 :
                    /\ yearly'[r][k][1] = current_year - 4 + k
                    /\ yearly'[r][k][4] = num_tiles'[r] * num_tiles'[r]]_vars

C20_Witness ==
  \E r \in Requests :
    /\ pc[r] = "returned"
    /\ num_tiles[r] = 2
    /\ Len(yearly[r]) = 4
    /\ \A k \in 1..4 : yearly[r][k][4] = 4

====
